---- MODULE Spec2Model ----
(***************************************************************************)
(* A model of the ttwa repository.                                         *)
(*                                                                         *)
(*   SynthSpec  : src/src/ttwa/deployment.py, the CDK application.  One    *)
(*                run of `app = HelloWorldApp()`, statement by statement:  *)
(*                the context validation of HelloWorldApp.__init__, then   *)
(*                every construct HelloWorldStack.__init__ declares, in    *)
(*                declaration order, then app.synth().                     *)
(*   HealthSpec : src/docker/app.py, the Flask health service, together    *)
(*                with the PostgreSQL server and the secret store it       *)
(*                talks to.                                                *)
(***************************************************************************)
EXTENDS Naturals, Sequences, FiniteSets, TLC

VARIABLES
    \* ---- deployment.py ----
    ctx,          \* the CDK context: what node.try_get_context returns per key
    pc,           \* the statement of deployment.py about to run
    error,        \* the exception that ended the run, if any
    warnings,     \* annotations added to the app
    stack,        \* the HelloWorldStack instance
    constructs,   \* ids of the constructs declared in the stack, in order
    vpc,          \* the ec2.Vpc
    sgRules,      \* add_ingress_rule calls made so far
    secretRef,    \* aurora_secret
    cluster,      \* aurora_cluster
    service,      \* fargate_service
    webAcl,       \* web_acl
    outputs,      \* CfnOutput name -> value
    \* ---- app.py ----
    proc,         \* the Flask process: "import", "running" or "crashed"
    uriCreds,     \* credentials baked into SQLALCHEMY_DATABASE_URI
    secret,       \* secret store: the credentials it returns, or NONE
    roles,        \* PostgreSQL server: login roles that exist
    serverUp,     \* PostgreSQL server: accepting connections
    dbExists,     \* PostgreSQL server: database flaskdb exists
    tableExists,  \* PostgreSQL server: table "user" exists in flaskdb
    last,         \* the response to the latest request, any route
    probe,        \* the latest GET / and what it did
    prevProbe,    \* the GET / before that
    sinceProbe    \* TRUE while the environment is as the latest GET / left it

synthVars == <<ctx, pc, error, warnings, stack, constructs, vpc, sgRules,
               secretRef, cluster, service, webAcl, outputs>>
healthVars == <<proc, uriCreds, secret, roles, serverUp, dbExists, tableExists,
                last, probe, prevProbe, sinceProbe>>
vars == <<synthVars, healthVars>>

\* Python's None.
NONE == "<None>"

\* An object that has not been declared yet.
NoObject == [declared |-> FALSE]

(***************************************************************************)
(*                      deployment.py : the CDK app                        *)
(***************************************************************************)

\* Context values a run may be given: absent (None), empty, or a value.
HostedZoneIds == {NONE, "", "Z0123456789", "Z9876543210"}
HostedZoneNames == {NONE, "", "example.com", "example.org"}
EnvNames == {NONE, "", "dev", "prod"}

\* Names bound at module level by the import block of deployment.py.
ModuleNames ==
    {"os", "Construct", "App", "Stack", "CfnOutput", "RemovalPolicy",
     "ec2", "ecs", "ecs_patterns", "elbv2", "rds", "s3", "cloudfront", "acm",
     "route53", "route53_targets", "wafv2", "backup", "iam", "kms", "logs",
     "sns", "cloudwatch", "cloudwatch_actions", "events", "ecr_assets",
     "secretsmanager", "Duration"}

\* Variant of Falsy: a test `v is None`, which lets the empty string through.
FalsyNoneOnly(v) == v = NONE

\* Python truthiness of a context value: `not v` holds for None and "".
Falsy(v) == v = NONE \/ v = ""

NoError == [type |-> "none", names |-> ""]
Raise(type, name) == [type |-> type, names |-> name]

\* The health service does nothing while the app is synthesized.
HealthIdle ==
    /\ proc = "import"
    /\ uriCreds = 0
    /\ secret = 0
    /\ roles = {}
    /\ serverUp = FALSE
    /\ dbExists = FALSE
    /\ tableExists = FALSE
    /\ last = [route |-> "none"]
    /\ probe = [route |-> "none"]
    /\ prevProbe = [route |-> "none"]
    /\ sinceProbe = FALSE

SynthInit ==
    /\ ctx \in [hosted_zone_id : HostedZoneIds,
                hosted_zone_name : HostedZoneNames,
                env_name : EnvNames]
    /\ pc = "app_init"
    /\ error = NoError
    /\ warnings = {}
    /\ stack = NoObject
    /\ constructs = <<>>
    /\ vpc = NoObject
    /\ sgRules = {}
    /\ secretRef = NoObject
    /\ cluster = NoObject
    /\ service = NoObject
    /\ webAcl = NoObject
    /\ outputs = {}
    /\ HealthIdle

\* The exception HelloWorldApp.__init__ raises for context c, NoError if none.
\* The branch for a missing env_name evaluates the global name Annotations
\* before anything else, which is a NameError unless the module binds it.
Validated(c) ==
    IF Falsy(c.hosted_zone_id) THEN Raise("ValueError", "hosted_zone_id")
    ELSE IF Falsy(c.hosted_zone_name) THEN Raise("ValueError", "hosted_zone_name")
    ELSE IF Falsy(c.env_name) /\ "Annotations" \notin ModuleNames
         THEN Raise("NameError", "Annotations")
    ELSE NoError

\* HelloWorldApp.__init__ up to the call of HelloWorldStack(...).
AppInit ==
    /\ pc = "app_init"
    /\ LET e == Validated(ctx) IN
         IF e # NoError
         THEN /\ error' = e
              /\ pc' = "raised"
              /\ UNCHANGED <<warnings, stack>>
         ELSE /\ error' = error
              /\ warnings' = IF Falsy(ctx.env_name)
                             THEN warnings \cup {"Missing context variable 'env_name'"}
                             ELSE warnings
              /\ LET env_name == IF Falsy(ctx.env_name) THEN "dev" ELSE ctx.env_name IN
                   stack' = [declared |-> FALSE,
                             id |-> "HelloWorldStack-" \o env_name,
                             hosted_zone_name |-> ctx.hosted_zone_name,
                             hosted_zone_id |-> ctx.hosted_zone_id,
                             env_name |-> env_name,
                             env |-> NONE]
              /\ pc' = "stack_init"
    /\ UNCHANGED <<ctx, constructs, vpc, sgRules, secretRef, cluster, service,
                   webAcl, outputs>>
    /\ UNCHANGED healthVars

(***************************************************************************)
(* HelloWorldStack.__init__, one action per statement.                     *)
(***************************************************************************)

\* Program constants of deployment.py.
MaxAzs == 3
NatGateways == 3
HttpPort == 80
HttpsPort == 443
ContainerPort == 5000
DbPort == 5432
Instances == 9
DesiredCount == 9
RateLimit == 1000

AnyIpv4 == "0.0.0.0/0"

\* f"{self.env_name}-<suffix>"
Id(suffix) == stack.env_name \o "-" \o suffix

\* Control passes from statement `from` to statement `to`; the app-level
\* state and the health service are untouched.
Goto(from, to) ==
    /\ pc = from
    /\ pc' = to
    /\ UNCHANGED <<ctx, error, warnings>>
    /\ UNCHANGED healthVars

\* A construct with id `id` is added to the stack's scope.
Declare(id) == constructs' = Append(constructs, id)

\* super().__init__(scope, construct_id); self.env_name = env_name
StackInit ==
    /\ Goto("stack_init", "kms_key")
    /\ stack' = [stack EXCEPT !.declared = TRUE]
    /\ UNCHANGED <<constructs, vpc, sgRules, secretRef, cluster, service,
                   webAcl, outputs>>

KmsKey ==
    /\ Goto("kms_key", "vpc")
    /\ Declare(Id("kms-key"))
    /\ UNCHANGED <<stack, vpc, sgRules, secretRef, cluster, service, webAcl,
                   outputs>>

\* The subnet_configuration list of the Vpc.
SubnetConfiguration ==
    << [name |-> "public", subnet_type |-> "PUBLIC", cidr_mask |-> 24],
       [name |-> "private-app", subnet_type |-> "PRIVATE_WITH_EGRESS", cidr_mask |-> 24],
       [name |-> "private-db", subnet_type |-> "PRIVATE_ISOLATED", cidr_mask |-> 24] >>

\* Zones a stack offers its constructs (Stack.availability_zones).  A stack
\* given no `env` is environment-agnostic and offers the first two zones of
\* whatever region it is deployed to; a stack bound to eu-central-1 offers
\* that region's three.
AgnosticAzs == 2
RegionAzs == 3
StackZones(stk) == IF stk.env = NONE THEN 1..AgnosticAzs ELSE 1..RegionAzs

Min(a, b) == IF a <= b THEN a ELSE b

\* The zones the Vpc spans: the stack's zones, cut to max_azs.
VpcZones(stk) == {z \in StackZones(stk) : z <= MaxAzs}

\* How a subnet of the given type reaches the internet.
RouteOf(subnet_type) ==
    CASE subnet_type = "PUBLIC" -> "internet_gateway"
      [] subnet_type = "PRIVATE_WITH_EGRESS" -> "nat_gateway"
      [] subnet_type = "PRIVATE_ISOLATED" -> "none"

\* The subnets the Vpc creates: one per subnet configuration per zone.
Subnets(stk) ==
    {[name |-> SubnetConfiguration[i].name,
      subnet_type |-> SubnetConfiguration[i].subnet_type,
      zone |-> z,
      internet_route |-> RouteOf(SubnetConfiguration[i].subnet_type)] :
        i \in DOMAIN SubnetConfiguration, z \in VpcZones(stk)}

\* The zones whose public subnet gets a NAT gateway: nat_gateways of them,
\* and no more than the Vpc spans.
NatZones(stk) ==
    {z \in VpcZones(stk) : z <= Min(NatGateways, Cardinality(VpcZones(stk)))}

Vpc ==
    /\ Goto("vpc", "app_sg")
    /\ Declare(Id("vpc"))
    /\ vpc' = [declared |-> TRUE,
               id |-> Id("vpc"),
               max_azs |-> MaxAzs,
               nat_gateways |-> NatGateways,
               subnet_configuration |-> SubnetConfiguration,
               availability_zones |-> VpcZones(stack),
               subnets |-> Subnets(stack),
               nat_zones |-> NatZones(stack),
               flow_logs |-> "ALL"]
    /\ UNCHANGED <<stack, sgRules, secretRef, cluster, service, webAcl, outputs>>

AppSg ==
    /\ Goto("app_sg", "lb_sg")
    /\ Declare(Id("app-sg"))
    /\ UNCHANGED <<stack, vpc, sgRules, secretRef, cluster, service, webAcl,
                   outputs>>

LbSg ==
    /\ Goto("lb_sg", "db_sg")
    /\ Declare(Id("lb-sg"))
    /\ UNCHANGED <<stack, vpc, sgRules, secretRef, cluster, service, webAcl,
                   outputs>>

DbSg ==
    /\ Goto("db_sg", "lb_ingress_http")
    /\ Declare(Id("db-sg"))
    /\ UNCHANGED <<stack, vpc, sgRules, secretRef, cluster, service, webAcl,
                   outputs>>

\* group.add_ingress_rule(peer, ec2.Port.tcp(port), ...)
IngressRule(group, peer, port) == [group |-> group, peer |-> peer, port |-> port]

\* Variant of IngressOf: the database group opened to any IPv4 address.
IngressOfOpenDb(stmt) ==
    CASE stmt = "lb_ingress_http" -> IngressRule(Id("lb-sg"), AnyIpv4, HttpPort)
      [] stmt = "lb_ingress_https" -> IngressRule(Id("lb-sg"), AnyIpv4, HttpsPort)
      [] stmt = "app_ingress" -> IngressRule(Id("app-sg"), Id("lb-sg"), ContainerPort)
      [] stmt = "db_ingress" -> IngressRule(Id("db-sg"), AnyIpv4, DbPort)

\* The four add_ingress_rule calls, by the statement that makes them.
IngressOf(stmt) ==
    CASE stmt = "lb_ingress_http" -> IngressRule(Id("lb-sg"), AnyIpv4, HttpPort)
      [] stmt = "lb_ingress_https" -> IngressRule(Id("lb-sg"), AnyIpv4, HttpsPort)
      [] stmt = "app_ingress" -> IngressRule(Id("app-sg"), Id("lb-sg"), ContainerPort)
      [] stmt = "db_ingress" -> IngressRule(Id("db-sg"), Id("app-sg"), DbPort)

AddIngress(stmt, next) ==
    /\ Goto(stmt, next)
    /\ sgRules' = sgRules \cup {IngressOf(stmt)}
    /\ UNCHANGED <<stack, constructs, vpc, secretRef, cluster, service, webAcl,
                   outputs>>

LbIngressHttp == AddIngress("lb_ingress_http", "lb_ingress_https")
LbIngressHttps == AddIngress("lb_ingress_https", "app_ingress")
AppIngress == AddIngress("app_ingress", "db_ingress")
DbIngress == AddIngress("db_ingress", "db_subnet_group")

DbSubnetGroup ==
    /\ Goto("db_subnet_group", "aurora_secret")
    /\ Declare(Id("db-subnet-group"))
    /\ UNCHANGED <<stack, vpc, sgRules, secretRef, cluster, service, webAcl,
                   outputs>>

\* secretsmanager.Secret.from_secret_name_v2: a reference by name, no value.
AuroraSecret ==
    /\ Goto("aurora_secret", "aurora_cluster")
    /\ Declare(Id("AuroraSecret"))
    /\ secretRef' = [declared |-> TRUE,
                     id |-> Id("AuroraSecret"),
                     secret_name |-> Id("aurora-credentials"),
                     secret_arn |-> "arn:secret:" \o Id("aurora-credentials")]
    /\ UNCHANGED <<stack, vpc, sgRules, cluster, service, webAcl, outputs>>

AuroraCluster ==
    /\ Goto("aurora_cluster", "ecs_cluster")
    /\ Declare(Id("aurora-cluster")) 
    /\ cluster' = [declared |-> TRUE,
                   id |-> Id("aurora-cluster"),
                   credentials |-> secretRef.secret_name,
                   vpc |-> vpc.id,
                   security_groups |-> {Id("db-sg")},
                   instances |-> Instances,
                   removal_policy |-> "DESTROY",
                   deletion_protection |-> FALSE,
                   storage_encrypted |-> TRUE,
                   cluster_endpoint |-> Id("aurora-cluster") \o ".Endpoint.Address",
                   cluster_read_endpoint |-> Id("aurora-cluster") \o ".ReadEndpoint.Address"]
    /\ UNCHANGED <<stack, vpc, sgRules, secretRef, service, webAcl, outputs>>

EcsCluster ==
    /\ Goto("ecs_cluster", "docker_image")
    /\ Declare(Id("cluster"))
    /\ UNCHANGED <<stack, vpc, sgRules, secretRef, cluster, service, webAcl,
                   outputs>>

DockerImage ==
    /\ Goto("docker_image", "task_role")
    /\ Declare(Id("docker-image"))
    /\ UNCHANGED <<stack, vpc, sgRules, secretRef, cluster, service, webAcl,
                   outputs>>

TaskRole ==
    /\ Goto("task_role", "hosted_zone")
    /\ Declare(Id("task-role"))
    /\ UNCHANGED <<stack, vpc, sgRules, secretRef, cluster, service, webAcl,
                   outputs>>

HostedZone ==
    /\ Goto("hosted_zone", "certificate")
    /\ Declare("HostedZone")
    /\ UNCHANGED <<stack, vpc, sgRules, secretRef, cluster, service, webAcl,
                   outputs>>

Certificate ==
    /\ Goto("certificate", "fargate_service")
    /\ Declare("Certificate")
    /\ UNCHANGED <<stack, vpc, sgRules, secretRef, cluster, service, webAcl,
                   outputs>>

\* Variant of Environment: DB_HOST bound to the read endpoint.
EnvironmentReadEndpoint(stk, sec, clu) ==
    [ENVIRONMENT |-> stk.env_name,
     DB_SECRET_ARN |-> sec.secret_arn,
     DB_HOST |-> clu.cluster_read_endpoint,
     AWS_REGION |-> "${AWS::Region}"]

\* The `environment` mapping of the task image options.
Environment(stk, sec, clu) ==
    [ENVIRONMENT |-> stk.env_name,
     DB_SECRET_ARN |-> sec.secret_arn,
     DB_HOST |-> clu.cluster_endpoint,
     AWS_REGION |-> "${AWS::Region}"]

FargateService ==
    /\ Goto("fargate_service", "configure_health_check")
    /\ Declare(Id("fargate-service"))
    /\ service' = [declared |-> TRUE,
                   id |-> Id("fargate-service"),
                   desired_count |-> DesiredCount,
                   container_port |-> ContainerPort,
                   environment |-> Environment(stack, secretRef, cluster),
                   security_groups |-> {Id("app-sg")},
                   protocol |-> "HTTPS",
                   redirect_http |-> TRUE,
                   health_check_path |-> "/"]
    /\ UNCHANGED <<stack, vpc, sgRules, secretRef, cluster, webAcl, outputs>>

\* fargate_service.target_group.configure_health_check(path="/ping", ...)
ConfigureHealthCheck ==
    /\ Goto("configure_health_check", "alias_record")
    /\ service' = [service EXCEPT !.health_check_path = "/ping"]
    /\ UNCHANGED <<stack, constructs, vpc, sgRules, secretRef, cluster, webAcl,
                   outputs>>

AliasRecord ==
    /\ Goto("alias_record", "web_acl")
    /\ Declare("AliasRecord")
    /\ UNCHANGED <<stack, vpc, sgRules, secretRef, cluster, service, webAcl,
                   outputs>>

\* Variant of WebAclRules: the rate limit given the lowest priority number.
WebAclRulesRateFirst ==
    << [name |-> "AWS-AWSManagedRulesCommonRuleSet", priority |-> 1,
        statement |-> "managed_rule_group", action |-> "override_none"],
       [name |-> "AWS-AWSManagedRulesKnownBadInputsRuleSet", priority |-> 2,
        statement |-> "managed_rule_group", action |-> "override_none"],
       [name |-> "RateLimit", priority |-> 0,
        statement |-> "rate_based", action |-> "block"] >>

\* The `rules` list of the CfnWebACL, in list order.
WebAclRules ==
    << [name |-> "AWS-AWSManagedRulesCommonRuleSet", priority |-> 1,
        statement |-> "managed_rule_group", action |-> "override_none"],
       [name |-> "AWS-AWSManagedRulesKnownBadInputsRuleSet", priority |-> 2,
        statement |-> "managed_rule_group", action |-> "override_none"],
       [name |-> "RateLimit", priority |-> 3,
        statement |-> "rate_based", action |-> "block"] >>

WebAcl ==
    /\ Goto("web_acl", "web_acl_association")
    /\ Declare(Id("web-acl"))
    /\ webAcl' = [declared |-> TRUE,
                  id |-> Id("web-acl"),
                  scope |-> "REGIONAL",
                  default_action |-> "allow",
                  rate_limit |-> RateLimit,
                  rules |-> WebAclRules]
    /\ UNCHANGED <<stack, vpc, sgRules, secretRef, cluster, service, outputs>>

WebAclAssociation ==
    /\ Goto("web_acl_association", "logs_bucket")
    /\ Declare(Id("webacl-association"))
    /\ UNCHANGED <<stack, vpc, sgRules, secretRef, cluster, service, webAcl,
                   outputs>>

LogsBucket ==
    /\ Goto("logs_bucket", "cpu_alarm")
    /\ Declare(Id("logs-bucket"))
    /\ UNCHANGED <<stack, vpc, sgRules, secretRef, cluster, service, webAcl,
                   outputs>>

CpuAlarm ==
    /\ Goto("cpu_alarm", "alarm_topic")
    /\ Declare(Id("cpu-alarm"))
    /\ UNCHANGED <<stack, vpc, sgRules, secretRef, cluster, service, webAcl,
                   outputs>>

\* sns.Topic, then cpu_alarm.add_alarm_action(SnsAction(alarm_topic))
AlarmTopic ==
    /\ Goto("alarm_topic", "output_lb_dns")
    /\ Declare(Id("alarm-topic"))
    /\ UNCHANGED <<stack, vpc, sgRules, secretRef, cluster, service, webAcl,
                   outputs>>

\* The five CfnOutput statements, by the statement that makes them.
OutputOf(stmt) ==
    CASE stmt = "output_lb_dns" ->
           [name |-> "LoadBalancerDNS", value |-> service.id \o ".LoadBalancer.DNSName"]
      [] stmt = "output_domain" ->
           [name |-> "RecordDomainName",
            value |-> "https://" \o stack.env_name \o "." \o stack.hosted_zone_name]
      [] stmt = "output_db" ->
           [name |-> "DBEndpoint", value |-> cluster.cluster_endpoint]
      [] stmt = "output_db_read" ->
           [name |-> "DBReadEndpoint", value |-> cluster.cluster_read_endpoint]
      [] stmt = "output_env" ->
           [name |-> "EnvName", value |-> stack.env_name]

CfnOutput(stmt, next) ==
    /\ Goto(stmt, next)
    /\ Declare(OutputOf(stmt).name)
    /\ outputs' = outputs \cup {OutputOf(stmt)}
    /\ UNCHANGED <<stack, vpc, sgRules, secretRef, cluster, service, webAcl>>

OutputLbDns == CfnOutput("output_lb_dns", "output_domain")
OutputDomain == CfnOutput("output_domain", "output_db")
OutputDb == CfnOutput("output_db", "output_db_read")
OutputDbRead == CfnOutput("output_db_read", "output_env")
OutputEnv == CfnOutput("output_env", "synth")

\* app.synth(): the construct tree is final.
Synth ==
    /\ Goto("synth", "done")
    /\ UNCHANGED <<stack, constructs, vpc, sgRules, secretRef, cluster, service,
                   webAcl, outputs>>

SynthNext ==
    \/ AppInit \/ StackInit \/ KmsKey \/ Vpc
    \/ AppSg \/ LbSg \/ DbSg
    \/ LbIngressHttp \/ LbIngressHttps \/ AppIngress \/ DbIngress
    \/ DbSubnetGroup \/ AuroraSecret \/ AuroraCluster
    \/ EcsCluster \/ DockerImage \/ TaskRole \/ HostedZone \/ Certificate
    \/ FargateService \/ ConfigureHealthCheck \/ AliasRecord
    \/ WebAcl \/ WebAclAssociation \/ LogsBucket \/ CpuAlarm \/ AlarmTopic
    \/ OutputLbDns \/ OutputDomain \/ OutputDb \/ OutputDbRead \/ OutputEnv
    \/ Synth

SynthSpec == SynthInit /\ [][SynthNext]_vars

(***************************************************************************)
(*                   docker/app.py : the health service                    *)
(***************************************************************************)

\* Distinct credentials (user name and password) the secret may hold over
\* the life of the process.
MaxCreds == 2
Creds == 1..MaxCreds

\* What the secret store holds when get_secret_value fails.
SecretUnavailable == 0

NoRequest == [route |-> "none"]

\* The environment of the process: the secret store and the PostgreSQL server.
Env ==
    [secret |-> secret, roles |-> roles, serverUp |-> serverUp,
     dbExists |-> dbExists, tableExists |-> tableExists]

\* Exception texts of a failed connection, as word sequences; <<>> is success.
\* The handler sees only the text.  A login as a role the server does not
\* have is reported as `FATAL: role "..." does not exist` by servers whose
\* authentication method does not reject the login first (trust, peer, cert,
\* ldap, ...).
Connected == <<>>
MsgConnRefused == <<"could", "not", "connect", "to", "server">>
MsgRoleMissing == <<"FATAL", "role", "does", "not", "exist">>
MsgDbMissing == <<"FATAL", "database", "flaskdb", "does", "not", "exist">>

\* psycopg2.connect(host, port, user, password, database) against server e:
\* the server must answer, then the role must exist, then the database.
Connect(e, user, database) ==
    IF ~e.serverUp THEN MsgConnRefused
    ELSE IF user \notin e.roles THEN MsgRoleMissing
    ELSE IF database = "flaskdb" /\ ~e.dbExists THEN MsgDbMissing
    ELSE Connected

\* Python's `needle in msg` on the words of the message.
Contains(msg, needle) ==
    \E i \in 1..Len(msg) :
        /\ i + Len(needle) - 1 <= Len(msg)
        /\ SubSeq(msg, i, i + Len(needle) - 1) = needle

DoesNotExist == <<"does", "not", "exist">>

\* create_database_if_not_exists() run against environment e: how the call
\* ends ("True", "False" or "raise") and the environment it leaves.
\* get_db_credentials() is called before the try block, so its failure
\* propagates; every later failure is caught and returns False.
CreateDatabaseIfNotExists(e) ==
    IF e.secret = SecretUnavailable
    THEN [result |-> "raise", env |-> e]
    ELSE IF Connect(e, e.secret, "postgres") # Connected
    THEN [result |-> "False", env |-> e]
    ELSE LET created == [e EXCEPT !.dbExists = TRUE] IN
         IF Connect(created, e.secret, "flaskdb") # Connected
         THEN [result |-> "False", env |-> created]
         ELSE [result |-> "True", env |-> [created EXCEPT !.tableExists = TRUE]]

\* Variant of Ping: a liveness answer that depends on the database check.
PingChecksDb(e, uri) ==
    [code |-> IF Connect(e, uri, "flaskdb") = Connected THEN 200 ELSE 503,
     status |-> "container running", env |-> e]

\* ping(): no database access, always 200.
Ping(e, uri) ==
    [code |-> 200, status |-> "container running", env |-> e]

\* Whether health_check tries the on-demand bootstrap for exception text msg.
WantsBootstrap(msg) == Contains(msg, DoesNotExist)

\* Variant of Unhealthy: an exception of the bootstrap escaping the handler.
UnhealthyCrash(msg, b) ==
    [code |-> IF b.result = "raise" THEN 500 ELSE 503,
     status |-> IF b.result = "raise" THEN "error" ELSE "unhealthy",
     error |-> msg, attempted |-> TRUE, bootstrap |-> b.result, env |-> b.env]

\* The response health_check gives when the bootstrap did not return True:
\* a False return and a caught exception both reach the final return.
Unhealthy(msg, b) ==
    [code |-> 503, status |-> "unhealthy", error |-> msg,
     attempted |-> TRUE, bootstrap |-> b.result, env |-> b.env]

\* health_check() with the URI credentials uri against environment e.
HealthCheck(e, uri) ==
    LET msg == Connect(e, uri, "flaskdb") IN
    IF msg = Connected
    THEN [code |-> 200, status |-> "healthy", error |-> msg,
          attempted |-> FALSE, bootstrap |-> "none", env |-> e]
    ELSE IF WantsBootstrap(msg)
    THEN LET b == CreateDatabaseIfNotExists(e) IN
         IF b.result = "True"
         THEN [code |-> 200, status |-> "initializing", error |-> msg,
               attempted |-> TRUE, bootstrap |-> b.result, env |-> b.env]
         ELSE Unhealthy(msg, b)
    ELSE [code |-> 503, status |-> "unhealthy", error |-> msg,
          attempted |-> FALSE, bootstrap |-> "none", env |-> e]

\* No synthesis runs while the health service is observed.
SynthIdle ==
    /\ ctx = [hosted_zone_id |-> NONE, hosted_zone_name |-> NONE, env_name |-> NONE]
    /\ pc = "app_init"
    /\ error = NoError
    /\ warnings = {}
    /\ stack = NoObject
    /\ constructs = <<>>
    /\ vpc = NoObject
    /\ sgRules = {}
    /\ secretRef = NoObject
    /\ cluster = NoObject
    /\ service = NoObject
    /\ webAcl = NoObject
    /\ outputs = {}

HealthInit ==
    /\ proc = "import"
    /\ uriCreds = 0
    /\ secret \in {SecretUnavailable} \cup Creds
    /\ roles \in SUBSET Creds
    /\ serverUp \in BOOLEAN
    /\ dbExists \in BOOLEAN
    /\ tableExists \in {t \in BOOLEAN : t => dbExists}
    /\ last = NoRequest
    /\ probe = NoRequest
    /\ prevProbe = NoRequest
    /\ sinceProbe = FALSE
    /\ SynthIdle

\* The handlers change nothing of the environment but the server's databases.
SetEnv(e) ==
    /\ dbExists' = e.dbExists
    /\ tableExists' = e.tableExists
    /\ UNCHANGED <<secret, roles, serverUp>>

\* Module-level code of app.py: the guarded bootstrap, then the unguarded
\* get_db_credentials() whose result is baked into the database URI; with
\* main, the __main__ block's db.create_all() before app.run().
Startup ==
    /\ proc = "import"
    /\ \E main \in BOOLEAN :
         LET b == CreateDatabaseIfNotExists(Env) IN
         IF b.env.secret = SecretUnavailable
         THEN /\ proc' = "crashed"
              /\ uriCreds' = uriCreds
              /\ SetEnv(b.env)
         ELSE /\ proc' = "running"
              /\ uriCreds' = b.env.secret
              /\ IF main /\ Connect(b.env, b.env.secret, "flaskdb") = Connected
                 THEN SetEnv([b.env EXCEPT !.tableExists = TRUE])
                 ELSE SetEnv(b.env)
    /\ UNCHANGED <<last, probe, prevProbe, sinceProbe>>
    /\ UNCHANGED synthVars

\* GET /ping
GetPing ==
    /\ proc = "running"
    /\ LET r == Ping(Env, uriCreds) IN
         /\ last' = [route |-> "/ping", code |-> r.code, status |-> r.status,
                     mutated |-> r.env # Env]
         /\ SetEnv(r.env)
    /\ UNCHANGED <<proc, uriCreds, probe, prevProbe, sinceProbe>>
    /\ UNCHANGED synthVars

\* GET /
GetRoot ==
    /\ proc = "running"
    /\ LET r == HealthCheck(Env, uriCreds)
           p == [route |-> "/", code |-> r.code, status |-> r.status,
                 error |-> r.error, attempted |-> r.attempted,
                 bootstrap |-> r.bootstrap,
                 dbMissing |-> serverUp /\ ~dbExists,
                 created |-> ~dbExists /\ r.env.dbExists,
                 mutated |-> r.env # Env,
                 quiet |-> sinceProbe]
       IN /\ probe' = p
          /\ prevProbe' = probe
          /\ last' = p
          /\ SetEnv(r.env)
    /\ sinceProbe' = TRUE
    /\ UNCHANGED <<proc, uriCreds>>
    /\ UNCHANGED synthVars

\* ---- the environment ----

\* The secret is rotated, or the secret store starts or stops answering.
SecretChange ==
    /\ proc = "running"
    /\ \E v \in ({SecretUnavailable} \cup Creds) \ {secret} : secret' = v
    /\ sinceProbe' = FALSE
    /\ UNCHANGED <<proc, uriCreds, roles, serverUp, dbExists, tableExists,
                   last, probe, prevProbe>>
    /\ UNCHANGED synthVars

\* A login role is created or dropped.
RoleChange ==
    /\ proc = "running"
    /\ \E u \in Creds : roles' = IF u \in roles THEN roles \ {u} ELSE roles \cup {u}
    /\ sinceProbe' = FALSE
    /\ UNCHANGED <<proc, uriCreds, secret, serverUp, dbExists, tableExists,
                   last, probe, prevProbe>>
    /\ UNCHANGED synthVars

\* The server stops or starts accepting connections.
ServerChange ==
    /\ proc = "running"
    /\ serverUp' = ~serverUp
    /\ sinceProbe' = FALSE
    /\ UNCHANGED <<proc, uriCreds, secret, roles, dbExists, tableExists,
                   last, probe, prevProbe>>
    /\ UNCHANGED synthVars

\* The database flaskdb is dropped, and its table with it.
DropDatabase ==
    /\ proc = "running"
    /\ dbExists
    /\ dbExists' = FALSE
    /\ tableExists' = FALSE
    /\ sinceProbe' = FALSE
    /\ UNCHANGED <<proc, uriCreds, secret, roles, serverUp, last, probe,
                   prevProbe>>
    /\ UNCHANGED synthVars

HealthNext ==
    \/ Startup \/ GetPing \/ GetRoot
    \/ SecretChange \/ RoleChange \/ ServerChange \/ DropDatabase

HealthSpec == HealthInit /\ [][HealthNext]_vars

(***************************************************************************)
(*                               Claims                                    *)
(***************************************************************************)

Missing(v) == v \in {NONE, ""}

\* C1: once HelloWorldApp.__init__ has run, a missing (or empty)
\* hosted_zone_id has ended it with an error naming 'hosted_zone_id', and a
\* present hosted_zone_id with a missing hosted_zone_name with an error
\* naming 'hosted_zone_name'; in both cases no stack and no construct exists.
C1_MissingZoneAborts ==
    pc # "app_init" =>
      /\ Missing(ctx.hosted_zone_id) =>
           /\ pc = "raised"
           /\ error.names = "hosted_zone_id"
           /\ ~stack.declared /\ constructs = <<>>
      /\ ~Missing(ctx.hosted_zone_id) /\ Missing(ctx.hosted_zone_name) =>
           /\ pc = "raised"
           /\ error.names = "hosted_zone_name"
           /\ ~stack.declared /\ constructs = <<>>

C1_Witness ==
    /\ pc = "raised"
    /\ ctx.hosted_zone_id = "Z0123456789"
    /\ ctx.hosted_zone_name = NONE
    /\ error = [type |-> "ValueError", names |-> "hosted_zone_name"]

\* C2: with both hosted-zone values present and env_name missing, the app
\* does not abort: it records a warning, builds the stack HelloWorldStack-dev
\* and exports EnvName = 'dev'.
C2_MissingEnvDefaultsToDev ==
    ( /\ pc # "app_init"
      /\ ~Missing(ctx.hosted_zone_id)
      /\ ~Missing(ctx.hosted_zone_name)
      /\ ctx.env_name = NONE ) =>
        /\ error = NoError
        /\ pc # "raised"
        /\ warnings # {}
        /\ stack.id = "HelloWorldStack-dev"
        /\ \A o \in outputs : o.name = "EnvName" => o.value = "dev"

\* C7: at every point of the build the group attached to the database
\* cluster takes inbound traffic only from the application group on port
\* 5432, and a rule from any IPv4 address sits only on the load-balancer
\* group, on port 80 or 443.
C7_NoOpenRuleOnDatabase ==
    /\ \A r \in sgRules :
         /\ r.group = Id("db-sg") => r.peer = Id("app-sg") /\ r.port = 5432
         /\ r.peer = AnyIpv4 => r.group = Id("lb-sg") /\ r.port \in {80, 443}
    /\ cluster.declared =>
         /\ cluster.security_groups = {Id("db-sg")}
         /\ \E r \in sgRules : r.group = Id("db-sg")

C7_Witness ==
    /\ pc = "done"
    /\ [group |-> "prod-db-sg", peer |-> "prod-app-sg", port |-> 5432] \in sgRules
    /\ [group |-> "prod-lb-sg", peer |-> AnyIpv4, port |-> 443] \in sgRules

\* C8: the web ACL's rules are, in list order, the common rule set, the
\* known-bad-inputs rule set and the rate limit; their priorities strictly
\* increase along the list, so the rate limit has the highest of all.
C8_WafPrioritiesIncrease ==
    webAcl.declared =>
      LET r == webAcl.rules IN
        /\ [i \in DOMAIN r |-> r[i].name] =
             << "AWS-AWSManagedRulesCommonRuleSet",
                "AWS-AWSManagedRulesKnownBadInputsRuleSet",
                "RateLimit" >>
        /\ \A i, j \in DOMAIN r : i < j => r[i].priority < r[j].priority
        /\ \A i \in DOMAIN r :
             r[i].name # "RateLimit" => r[i].priority < r[Len(r)].priority
        /\ r[Len(r)].statement = "rate_based"

C8_Witness ==
    /\ webAcl.declared
    /\ Len(webAcl.rules) = 3
    /\ pc = "done"

\* C9: the service's desired count equals the zone count of the network, 3.
C9_ReplicasEqualZones ==
    service.declared =>
      /\ service.desired_count = vpc.max_azs
      /\ service.desired_count = 3

\* Where construct id was declared, 0 if it was not.
Position(id) ==
    IF \E i \in DOMAIN constructs : constructs[i] = id
    THEN CHOOSE i \in DOMAIN constructs : constructs[i] = id
    ELSE 0

\* C10: when the service is declared, the secret reference and the cluster
\* were declared before it, and its bindings are the cluster's primary
\* endpoint, the secret's ARN and the environment name; the DBEndpoint
\* output is the same address as DB_HOST.
C10_BindingsAfterDataTier ==
    /\ service.declared =>
         /\ secretRef.declared /\ cluster.declared
         /\ 0 < Position(secretRef.id) /\ Position(secretRef.id) < Position(service.id)
         /\ 0 < Position(cluster.id) /\ Position(cluster.id) < Position(service.id)
         /\ service.environment.DB_HOST = cluster.cluster_endpoint
         /\ service.environment.DB_SECRET_ARN = secretRef.secret_arn
         /\ service.environment.ENVIRONMENT = stack.env_name
    /\ \A o \in outputs :
         o.name = "DBEndpoint" => o.value = service.environment.DB_HOST

C10_Witness ==
    /\ pc = "done"
    /\ service.environment.DB_HOST = "dev-aurora-cluster.Endpoint.Address"
    /\ [name |-> "DBEndpoint", value |-> "dev-aurora-cluster.Endpoint.Address"]
         \in outputs

\* An environment whose data must outlive the stack, as opposed to an
\* environment that is created and thrown away.
Persistent(env_name) == env_name = "prod"

\* C11: the cluster's deletion behaviour follows the environment: in a
\* persistent environment the cluster is not declared with removal policy
\* DESTROY and its deletion protection is on.
C11_PersistentDataRetained ==
    cluster.declared /\ Persistent(stack.env_name) =>
      /\ cluster.removal_policy # "DESTROY"
      /\ cluster.deletion_protection

\* C12: the network spans 3 zones, with exactly one NAT gateway and exactly
\* one public, one app and one data subnet in each: 3 gateways and 9
\* subnets; no data subnet has a route to the internet.
C12_OneGatewayAndSubnetPerZone ==
    vpc.declared =>
      /\ Cardinality(vpc.availability_zones) = 3
      /\ vpc.nat_zones = vpc.availability_zones
      /\ Cardinality(vpc.nat_zones) = 3
      /\ \A z \in vpc.availability_zones :
           \A n \in {"public", "private-app", "private-db"} :
             Cardinality({sn \in vpc.subnets : sn.zone = z /\ sn.name = n}) = 1
      /\ Cardinality(vpc.subnets) = 9
      /\ \A sn \in vpc.subnets :
           sn.name = "private-db" => sn.internet_route = "none"

\* C3: every answer to GET /ping is 200 and leaves the database as it was.
C3_PingAlways200 ==
    last.route = "/ping" => last.code = 200 /\ ~last.mutated

\* A ping answered right after a readiness probe whose bootstrap failed,
\* with the database still missing.
C3_Witness ==
    /\ last.route = "/ping" /\ last.code = 200
    /\ probe.route = "/" /\ probe.code = 503 /\ probe.bootstrap = "False"
    /\ sinceProbe
    /\ ~dbExists

\* C4: the probe that creates the missing database answers 200
\* 'initializing'; the probe after an 'initializing' answer answers 200
\* 'healthy'; and 'initializing' is answered only when the database was
\* missing.
C4_InitializingOnce ==
    /\ probe.route = "/" /\ probe.created =>
         probe.code = 200 /\ probe.status = "initializing"
    /\ ( /\ prevProbe.route = "/" /\ prevProbe.status = "initializing"
         /\ probe.route = "/" /\ probe.quiet ) =>
         probe.code = 200 /\ probe.status = "healthy"
    /\ probe.route = "/" /\ probe.status = "initializing" => probe.dbMissing

\* C5: a probe whose database check fails for a reason other than the
\* missing database answers 503 'unhealthy' with the error, without trying
\* to create the database or the table.
C5_OtherFailuresNoBootstrap ==
    ( /\ probe.route = "/"
      /\ probe.error # Connected
      /\ probe.error # MsgDbMissing ) =>
        /\ probe.code = 503 /\ probe.status = "unhealthy"
        /\ ~probe.attempted
        /\ ~probe.mutated

\* C6: a probe that finds the database missing and whose bootstrap returns
\* False or raises answers 503 'unhealthy' and leaves the process running;
\* with the environment unchanged, the next probe finds the database
\* missing again and tries the bootstrap again.
C6_FailedBootstrapRetried ==
    /\ ( /\ probe.route = "/"
         /\ probe.error = MsgDbMissing
         /\ probe.bootstrap \in {"False", "raise"} ) =>
           /\ probe.code = 503 /\ probe.status = "unhealthy"
           /\ proc = "running"
    /\ ( /\ prevProbe.route = "/"
         /\ prevProbe.error = MsgDbMissing
         /\ prevProbe.bootstrap \in {"False", "raise"}
         /\ probe.quiet ) =>
           /\ probe.error = MsgDbMissing
           /\ probe.attempted

C6_Witness ==
    /\ prevProbe.route = "/" /\ prevProbe.error = MsgDbMissing
    /\ prevProbe.bootstrap = "raise" /\ prevProbe.code = 503
    /\ probe.quiet /\ probe.attempted /\ probe.code = 503
    /\ proc = "running"

====
